---- MODULE Spec2Model ----
(***************************************************************************)
(* r2pipe.rs: the R2 convenience layer (src/src/r2.rs) driving an engine   *)
(* over an R2Pipe channel.  The transport (r2pipe.rs: open_pipe!,          *)
(* R2Pipe::in_session, R2Pipe::cmd, R2Pipe::close) is not among the source *)
(* files; it is modelled from spec.md sections 4.1-4.5 and 6.              *)
(*                                                                         *)
(* A byte is a one-symbol string.  NUL is the 0x00 terminator, LF is "\n", *)
(* BAD is a byte that is not valid UTF-8, "o" abbreviates the member       *)
(* "offset":1 of a JSON object.                                            *)
(***************************************************************************)
EXTENDS Naturals, Sequences, FiniteSets

\* ------------------------------------------------------------------ bounds

\* Requests after which the client starts no further operation that writes one
\* (an operation in progress writes all of its own).
MaxCmds == 2

\* Times the client may call a close operation.
MaxCloses == 2

\* ------------------------------------------------------------------- bytes

NUL == "NUL"
LF == "LF"
BAD == "BAD"

\* Commands a caller passes to send/cmd itself.
UserCmds == {"a", "b"}

\* What the engine may write as the payload of one response.
Payloads ==
    { <<>>, <<"x", LF>>, <<"x", NUL, "y">>, <<BAD>>, <<"[", "{", "o", "}", "]">> }

\* What the engine may have written of a response when it dies.
Partials == { <<"x">> }

Env == {"absent", "invalid", "valid"}
Paths == {"None", "Some"}

\* --------------------------------------------------------------- variables

VARIABLES
    env,        \* ambient configuration: inherited-session keys absent / present but invalid / valid
    engineOK,   \* whether the engine executable can be started
    holder,     \* what the client holds: "none", "pipe" (an R2Pipe), "r2" (an R2)
    sess,       \* Session state machine: "Uninitialized", "Connected", "Closed"
    variant,    \* Channel variant of the Session: "None", "Spawned", "Inherited"
    selected,   \* what the selector last decided: "None", "Spawned", "Inherited", "ConfigurationError"
    peer,       \* the engine at the other end: "none", "running", "exited"
    wire,       \* requests written and not yet taken by the engine
    rd,         \* bytes in the read end not yet consumed by the client
    sent,       \* history: every request written to the channel, in order
    produced,   \* history: the payload of every complete frame the engine wrote
    returned,   \* history: the result of every cmd whose request was written
    consumed,   \* history: terminators the client consumed
    quits,      \* history: quit requests written, as <<variant, operation>>
    released,   \* history: times the channel's OS resources were released
    prog,       \* the steps left of the operation the client is in
    phase,      \* "ready", "reading" (blocked in cmd), "waiting" (blocked in close)
    op,         \* the operation the client last called
    res,        \* result of the last R2Pipe::cmd
    readin,     \* R2.readin
    out,        \* what the last operation returned to its caller
    closes,     \* history: close operations called
    pending,    \* history: index in sent of the request written since the last recv/flush/return (0: none)
    got,        \* history: what each recv / cmd returned to the caller for a request written since the last one, with that request's index
    path,       \* the path argument of the last constructor call
    finfo,      \* fn_list's local Vec<FunctionInfo>
    panicked,   \* the client process panicked
    mark        \* history: requests written and frames consumed when the last operation was called

vars == << env, engineOK, holder, sess, variant, selected, peer, wire, rd, sent,
           produced, returned, consumed, quits, released, prog, phase, op, res,
           readin, out, closes, pending, got, path, finfo, panicked, mark >>

\* ----------------------------------------------------------------- results

Ok(v) == [ok |-> TRUE, val |-> v, err |-> "none"]
Err(e) == [ok |-> FALSE, val |-> <<>>, err |-> e]
Unit == [ok |-> TRUE, val |-> <<>>, err |-> "unit"]
NoResult == [ok |-> TRUE, val |-> <<>>, err |-> "nothing"]

Step(k, c) == [k |-> k, c |-> c]

\* ------------------------------------------------------------- Frame Codec

\* encode: the request frame of a command, its text followed by one "\n".
encode(command) == << command, LF >>

HasNul(s) == \E i \in 1..Len(s) : s[i] = NUL

\* Index of the first terminator of s (s holds one).
FirstNul(s) == CHOOSE i \in 1..Len(s) : s[i] = NUL /\ \A j \in 1..(i - 1) : s[j] # NUL

\* decode that takes everything buffered and keeps what precedes the first NUL.
DecodeRest_drained(s) == <<>>

\* decode: the bytes before the first NUL, the NUL discarded.
DecodePayload(s) == SubSeq(s, 1, FirstNul(s) - 1)
DecodeRest(s) == SubSeq(s, FirstNul(s) + 1, Len(s))

ValidUtf8(s) == \A i \in 1..Len(s) : s[i] # BAD

\* --------------------------------------------------------- Channel Selector

select(explicit_path, ambient_config) ==
    IF ambient_config = "valid" THEN "Inherited"
    ELSE IF explicit_path = "Some" THEN "Spawned"
    ELSE "ConfigurationError"

R2Pipe_in_session == IF env = "valid" THEN "Some" ELSE "None"

\* open_pipe!(path): the selection, then attach or spawn.
open_pipe(p) ==
    LET sel == select(p, env) IN
    IF sel = "Inherited" THEN [sel |-> sel, r |-> Ok(<<>>)]
    ELSE IF sel = "Spawned"
         THEN [sel |-> sel, r |-> IF engineOK THEN Ok(<<>>) ELSE Err("SpawnError")]
         ELSE [sel |-> sel, r |-> Err("ConfigurationError")]

\* ------------------------------------------------------- R2 (src/src/r2.rs)

in_session ==
    CASE R2Pipe_in_session = "Some" -> TRUE
      [] OTHER -> FALSE

\* send with the assignment to readin lost: let _ = self.pipe.cmd(cmd)
send_not_stored(cmd) == << Step("cmd", cmd) >>

\* send that calls cmd again after the first call.
send_retried(cmd) == << Step("cmd", cmd), Step("cmd", cmd), Step("unwrap_readin", "") >>

\* self.readin = self.pipe.cmd(cmd).unwrap()
send(cmd) == << Step("cmd", cmd), Step("unwrap_readin", "") >>

\* self.readin = String::from("")
flush == << Step("flush", "") >>

\* let res = self.readin.clone(); self.flush(); res
recv == << Step("clone_readin", "") >> \o flush

\* self.recv().replace("\n", ""), "{}" if empty, serde_json::from_str(..).unwrap()
recv_json == recv \o << Step("json_unwrap", "") >>

close == send("q!")

\* analyze without its flush.
analyze_unflushed == send("aa")

analyze == send("aa") \o flush

init == send("e asm.esil = true") \o send("e scr.color = false") \o analyze

\* format!("afvbj @ {}", location)
AfvbjAt == [l \in {"1", "2"} |-> IF l = "1" THEN "afvbj @ 1" ELSE "afvbj @ 2"]

locals_of(location) ==
    send(AfvbjAt[location]) \o recv \o << Step("from_str", "locals") >>

fn_list == send("aflj") \o recv \o << Step("from_str", "fn_list") >>

\* format!("pdfj @ {}", func)
PdfjAt == [f \in {"main"} |-> "pdfj @ main"]

function(func) == send(PdfjAt[func]) \o recv \o << Step("from_str", "function") >>

\* format!("pdj{}", n.unwrap_or(16)), then " @ offset" unless offset is empty
PdjCmd(n, offset) ==
    LET count == IF n = "None" THEN "16" ELSE n
        off == IF offset = "None" THEN "" ELSE offset
    IN IF off = ""
       THEN (IF count = "16" THEN "pdj16" ELSE "pdj1")
       ELSE (IF count = "16" THEN "pdj16 @ main" ELSE "pdj1 @ main")

insts(n, offset) == send(PdjCmd(n, offset)) \o recv \o << Step("from_str", "insts") >>

reg_info == send("drpj") \o recv \o << Step("from_str", "reg_info") >>

flag_info == send("fj") \o recv \o << Step("from_str", "flag_info") >>

bin_info == send("ij") \o recv \o << Step("from_str", "bin_info") >>

sections == send("Sj") \o recv \o << Step("from_str", "sections") >>

strings(data_only) ==
    IF data_only
    THEN send("izj") \o recv \o << Step("from_str", "strings") >>
    ELSE send("izzj") \o recv \o << Step("from_str", "strings") >>

\* new with the session test dropped from its guard.
new_ignoring_session(p) ==
    IF p = "None"
    THEN [r |-> Err("ConfigurationError"), sel |-> "ConfigurationError", panic |-> FALSE]
    ELSE LET o == open_pipe(p) IN [r |-> o.r, sel |-> o.sel, panic |-> ~o.r.ok]

\* new with its guard's conjunction written as a disjunction.
new_guard_or(p) ==
    IF p = "None" \/ ~in_session
    THEN [r |-> Err("ConfigurationError"), sel |-> "ConfigurationError", panic |-> FALSE]
    ELSE LET o == open_pipe(p) IN [r |-> o.r, sel |-> o.sel, panic |-> ~o.r.ok]

\* pub fn new(path): Err when no path and no session, else open_pipe!(path).unwrap()
new(p) ==
    IF p = "None" /\ ~in_session
    THEN [r |-> Err("ConfigurationError"), sel |-> "ConfigurationError", panic |-> FALSE]
    ELSE LET o == open_pipe(p) IN [r |-> o.r, sel |-> o.sel, panic |-> ~o.r.ok]

\* impl Default: R2::new(None).expect(..)
default ==
    LET n == new("None") IN [r |-> n.r, sel |-> n.sel, panic |-> n.panic \/ ~n.r.ok]

\* ------------------------------------------------------------------- Init

Init ==
    /\ env \in Env
    /\ engineOK \in BOOLEAN
    /\ holder = "none"
    /\ sess = "Uninitialized"
    /\ variant = "None"
    /\ selected = "None"
    /\ peer = "none"
    /\ wire = <<>>
    /\ rd = <<>>
    /\ sent = <<>>
    /\ produced = <<>>
    /\ returned = <<>>
    /\ consumed = 0
    /\ quits = <<>>
    /\ released = 0
    /\ prog = <<>>
    /\ phase = "ready"
    /\ op = "none"
    /\ res = NoResult
    /\ readin = <<>>
    /\ out = NoResult
    /\ closes = 0
    /\ pending = 0
    /\ got = <<>>
    /\ path = "None"
    /\ finfo = <<>>
    /\ panicked = FALSE
    /\ mark = [sent |-> 0, consumed |-> 0]

cfgVars == << env, engineOK >>
chanVars == << sess, variant, peer, wire, rd >>
histVars == << sent, produced, returned, consumed, quits, released, got >>

\* ---------------------------------------------------------- construction

\* The effect of a constructor whose outcome is n: the Session is built
\* (Uninitialized -> Connected) or the call fails or panics.
Construct(name, p, n, h) ==
    /\ holder = "none" /\ sess = "Uninitialized" /\ ~panicked
    /\ op' = name /\ path' = p
    /\ selected' = n.sel
    /\ out' = n.r
    /\ panicked' = n.panic
    /\ IF n.r.ok
       THEN /\ holder' = h /\ sess' = "Connected" /\ variant' = n.sel
            /\ peer' = "running" /\ readin' = <<>>

       ELSE UNCHANGED << holder, sess, variant, peer, readin >>
    /\ UNCHANGED << cfgVars, mark, wire, rd, histVars, prog, phase, res, closes, pending, finfo >>

R2_new(p) == Construct("new", p, new(p), "r2")

R2_default == Construct("default", "None", default, "r2")

\* open_pipe!(path) used directly: the Result is the caller's.
OpenPipe(p) ==
    LET o == open_pipe(p) IN
    Construct("open_pipe", p, [r |-> o.r, sel |-> o.sel, panic |-> FALSE], "pipe")

\* from that spawns a pipe of its own in place of the one it is given.
R2_from_respawned ==
    /\ holder = "pipe" /\ prog = <<>> /\ ~panicked
    /\ holder' = "r2" /\ readin' = <<>> /\ op' = "from" /\ out' = Unit
    /\ variant' = "Spawned"
    /\ UNCHANGED << cfgVars, mark, sess, peer, wire, rd, histVars, selected, prog, phase,
                    res, closes, pending, path, finfo, panicked >>

\* pub fn from(r2p: R2Pipe) -> R2
R2_from ==
    /\ holder = "pipe" /\ prog = <<>> /\ ~panicked
    /\ holder' = "r2" /\ readin' = <<>> /\ op' = "from" /\ out' = Unit
    /\ UNCHANGED << cfgVars, mark, chanVars, histVars, selected, prog, phase, res, closes,
                    pending, path, finfo, panicked >>

\* ------------------------------------------------------ calls of R2 methods

\* The caller enters a method of R2: its body is what the client runs next.
Call(name, program) ==
    /\ holder = "r2" /\ prog = <<>> /\ phase = "ready" /\ ~panicked
    /\ prog' = program /\ op' = name /\ out' = Unit
    /\ mark' = [sent |-> Len(sent), consumed |-> consumed]
    /\ UNCHANGED << cfgVars, chanVars, histVars, holder, selected, phase, res, readin,
                    pending, path, finfo, panicked >>

MayWrite == Len(sent) < MaxCmds

R2_send(c) == MayWrite /\ Call("send", send(c)) /\ UNCHANGED closes

R2_recv == Call("recv", recv) /\ UNCHANGED closes

R2_flush == Call("flush", flush) /\ UNCHANGED closes

R2_recv_json == Call("recv_json", recv_json) /\ UNCHANGED closes

R2_analyze == MayWrite /\ Call("analyze", analyze) /\ UNCHANGED closes

R2_init == MayWrite /\ Call("init", init) /\ UNCHANGED closes

R2_fn_list == MayWrite /\ Call("fn_list", fn_list) /\ UNCHANGED closes

R2_locals_of(l) == MayWrite /\ Call("locals_of", locals_of(l)) /\ UNCHANGED closes

R2_function(f) == MayWrite /\ Call("function", function(f)) /\ UNCHANGED closes

R2_insts(n, offset) == MayWrite /\ Call("insts", insts(n, offset)) /\ UNCHANGED closes

R2_reg_info == MayWrite /\ Call("reg_info", reg_info) /\ UNCHANGED closes

R2_flag_info == MayWrite /\ Call("flag_info", flag_info) /\ UNCHANGED closes

R2_bin_info == MayWrite /\ Call("bin_info", bin_info) /\ UNCHANGED closes

R2_sections == MayWrite /\ Call("sections", sections) /\ UNCHANGED closes

R2_strings(data_only) == MayWrite /\ Call("strings", strings(data_only)) /\ UNCHANGED closes

R2_close == closes < MaxCloses /\ closes' = closes + 1 /\ Call("close", close)

\* ------------------------------------------------- calls of R2Pipe methods

PipeCall(name, program) ==
    /\ holder = "pipe" /\ prog = <<>> /\ phase = "ready" /\ ~panicked
    /\ prog' = program /\ op' = name /\ out' = Unit
    /\ mark' = [sent |-> Len(sent), consumed |-> consumed]
    /\ UNCHANGED << cfgVars, chanVars, histVars, holder, selected, phase, res, readin,
                    pending, path, finfo, panicked >>

R2Pipe_cmd(c) ==
    /\ MayWrite
    /\ PipeCall("cmd", << Step("cmd", c), Step("return_res", "") >>)
    /\ UNCHANGED closes

R2Pipe_close ==
    /\ closes < MaxCloses /\ closes' = closes + 1
    /\ PipeCall("pipe_close", << Step("pipe_close", "") >>)

\* R2Pipe::cmdj: cmd, then the response decoded as a structured document.
R2Pipe_cmdj(c) ==
    /\ MayWrite
    /\ PipeCall("cmdj", << Step("cmd", c), Step("cmdj_parse", "") >>)
    /\ UNCHANGED closes

\* -------------------------------------------------------- structured text

IsSpace(b) == b = LF \/ b = " "

RECURSIVE StripSpace(_)
StripSpace(s) ==
    IF s = <<>> THEN <<>>
    ELSE IF IsSpace(Head(s)) THEN StripSpace(Tail(s))
    ELSE << Head(s) >> \o StripSpace(Tail(s))

ParseFail == [ok |-> FALSE, items |-> <<>>]

\* The elements of an array after its "[": objects "{}" (no offset), "{o}"
\* (offset 1), "{p}" (offset 2), separated by ",".
RECURSIVE ParseElems(_)
ParseElems(t) ==
    IF Len(t) >= 2 /\ t[1] = "{" /\ t[2] = "}"
    THEN IF Len(t) = 2 THEN [ok |-> TRUE, items |-> << "None" >>]
         ELSE IF t[3] = ","
              THEN LET r == ParseElems(SubSeq(t, 4, Len(t))) IN
                   IF r.ok THEN [ok |-> TRUE, items |-> << "None" >> \o r.items]
                   ELSE ParseFail
              ELSE ParseFail
    ELSE IF Len(t) >= 3 /\ t[1] = "{" /\ t[2] \in {"o", "p"} /\ t[3] = "}"
    THEN LET off == IF t[2] = "o" THEN "1" ELSE "2" IN
         IF Len(t) = 3 THEN [ok |-> TRUE, items |-> << off >>]
         ELSE IF t[4] = ","
              THEN LET r == ParseElems(SubSeq(t, 5, Len(t))) IN
                   IF r.ok THEN [ok |-> TRUE, items |-> << off >> \o r.items]
                   ELSE ParseFail
              ELSE ParseFail
    ELSE ParseFail

\* serde_json::from_str::<Vec<_>>(raw): a JSON array of objects.
from_str_vec(raw) ==
    LET t == StripSpace(raw) IN
    IF Len(t) >= 2 /\ t[1] = "[" /\ t[Len(t)] = "]"
    THEN IF Len(t) = 2 THEN [ok |-> TRUE, items |-> <<>>]
         ELSE ParseElems(SubSeq(t, 2, Len(t) - 1))
    ELSE ParseFail

\* serde_json::from_str::<T>(raw) for a struct T: a JSON object.
from_str_struct(raw) ==
    LET t == StripSpace(raw) IN
    IF t = << "{", "}" >> \/ t = << "{", "o", "}" >>
    THEN [ok |-> TRUE, items |-> t]
    ELSE ParseFail

\* The operations whose result type is a struct; the others return a Vec.
StructOps == {"function", "reg_info", "bin_info"}

\* str::replace("\n", "")
RECURSIVE RemoveLF(_)
RemoveLF(s) ==
    IF s = <<>> THEN <<>>
    ELSE IF Head(s) = LF THEN RemoveLF(Tail(s))
    ELSE << Head(s) >> \o RemoveLF(Tail(s))

EmptyDocument == << "{", "}" >>

\* A structured document, as a result value: its text without insignificant
\* whitespace.
Json(doc) == [ok |-> TRUE, val |-> doc, err |-> "json"]

\* serde_json::from_str::<Value>(raw): whitespace around the value is
\* skipped; the value is an object or an array of objects; no value at all
\* is an error.
from_str_value(raw) ==
    LET t == StripSpace(raw) IN
    IF t = EmptyDocument \/ t = << "{", "o", "}" >> \/ from_str_vec(raw).ok
    THEN Json(t)
    ELSE Err("StructuredError")

\* ------------------------------------------------------- R2Pipe::cmd steps

Running == prog # <<>> /\ phase = "ready" /\ ~panicked

\* cmd that writes its request and returns without reading the response.
cmd_write_no_read ==
    /\ Running /\ Head(prog).k = "cmd"
    /\ sess # "Closed" /\ peer # "exited"
    /\ wire' = Append(wire, encode(Head(prog).c))
    /\ sent' = Append(sent, Head(prog).c)
    /\ pending' = Len(sent) + 1
    /\ res' = Ok(<<>>) /\ prog' = Tail(prog)
    /\ UNCHANGED << cfgVars, mark, sess, variant, peer, rd, produced, returned, consumed,
                    quits, released, got, holder, selected, phase, op, readin, out,
                    closes, path, finfo, panicked >>

\* cmd, first half: refuse on a closed channel, else write the request frame.
cmd_write ==
    /\ Running /\ Head(prog).k = "cmd"
    /\ IF sess = "Closed"
       THEN /\ res' = Err("ClosedChannelError") /\ prog' = Tail(prog)
            /\ UNCHANGED << wire, sent, quits, pending, phase >>
       ELSE IF peer = "exited"
       THEN /\ res' = Err("TransportError") /\ prog' = Tail(prog)
            /\ UNCHANGED << wire, sent, quits, pending, phase >>
       ELSE /\ wire' = Append(wire, encode(Head(prog).c))
            /\ sent' = Append(sent, Head(prog).c)
            /\ quits' = IF Head(prog).c = "q!" THEN Append(quits, << variant, op >>) ELSE quits
            /\ pending' = Len(sent) + 1
            /\ phase' = "reading"
            /\ UNCHANGED << res, prog >>
    /\ UNCHANGED << cfgVars, mark, sess, variant, peer, rd, produced, returned, consumed,
                    released, got, holder, selected, op, readin, out, closes, path,
                    finfo, panicked >>

\* cmd's read that keeps waiting for a terminator at end-of-file.
cmd_read_past_eof ==
    /\ phase = "reading" /\ ~panicked
    /\ HasNul(rd)
    /\ LET payload == DecodePayload(rd)
           r == IF ValidUtf8(payload) THEN Ok(payload) ELSE Err("DecodeError")
       IN /\ res' = r
          /\ returned' = Append(returned, r)
    /\ rd' = DecodeRest(rd)
    /\ consumed' = consumed + 1
    /\ phase' = "ready" /\ prog' = Tail(prog)
    /\ UNCHANGED << cfgVars, mark, sess, variant, peer, wire, sent, produced, quits, released,
                    got, holder, selected, op, readin, out, closes, pending, path,
                    finfo, panicked >>

\* cmd, second half: decode one response frame; blocks while the stream holds
\* no terminator and is not at end-of-file.
cmd_read ==
    /\ phase = "reading" /\ ~panicked
    /\ \/ /\ HasNul(rd)
          /\ LET payload == DecodePayload(rd)
                 r == IF ValidUtf8(payload) THEN Ok(payload) ELSE Err("DecodeError")
             IN /\ res' = r
                /\ returned' = Append(returned, r)
          /\ rd' = DecodeRest(rd)
          /\ consumed' = consumed + 1
       \/ /\ ~HasNul(rd) /\ peer = "exited"
          /\ res' = Err("TransportError")
          /\ returned' = Append(returned, Err("TransportError"))
          /\ rd' = <<>>
          /\ UNCHANGED consumed
    /\ phase' = "ready" /\ prog' = Tail(prog)
    /\ UNCHANGED << cfgVars, mark, sess, variant, peer, wire, sent, produced, quits, released,
                    got, holder, selected, op, readin, out, closes, pending, path,
                    finfo, panicked >>

\* R2Pipe::cmd returns its Result to the caller.
return_res ==
    /\ Running /\ Head(prog).k = "return_res"
    /\ out' = res
    /\ got' = IF res.ok /\ pending > 0 THEN Append(got, [n |-> pending, r |-> res.val]) ELSE got
    /\ pending' = 0
    /\ prog' = Tail(prog)
    /\ UNCHANGED << cfgVars, mark, chanVars, sent, produced, returned, consumed, quits,
                    released, holder, selected, phase, op, res, readin, closes, path,
                    finfo, panicked >>

\* cmdj, after cmd: a failure of cmd is returned; an empty or whitespace-only
\* response is the empty document; anything else is parsed.
cmdj_parse ==
    /\ Running /\ Head(prog).k = "cmdj_parse"
    /\ out' = IF ~res.ok THEN res
              ELSE IF StripSpace(res.val) = <<>> THEN Json(EmptyDocument)
              ELSE from_str_value(res.val)
    /\ pending' = 0
    /\ prog' = Tail(prog)
    /\ UNCHANGED << cfgVars, mark, chanVars, histVars, holder, selected, phase, op, res,
                    readin, closes, path, finfo, panicked >>

\* ----------------------------------------------------- R2Pipe::close steps

pipe_close ==
    /\ Running /\ Head(prog).k = "pipe_close"
    /\ IF sess = "Closed"
       THEN /\ prog' = Tail(prog)
            /\ UNCHANGED << sess, wire, sent, quits, released, phase >>
       ELSE IF variant = "Inherited"
       THEN /\ sess' = "Closed" /\ released' = released + 1 /\ prog' = Tail(prog)
            /\ UNCHANGED << wire, sent, quits, phase >>
       ELSE /\ IF peer = "running"
               THEN /\ wire' = Append(wire, encode("q!"))
                    /\ sent' = Append(sent, "q!")
                    /\ quits' = Append(quits, << variant, op >>)
               ELSE UNCHANGED << wire, sent, quits >>
            /\ phase' = "waiting"
            /\ UNCHANGED << sess, released, prog >>
    /\ UNCHANGED << cfgVars, mark, variant, peer, rd, produced, returned, consumed, got,
                    holder, selected, op, res, readin, out, closes, pending, path,
                    finfo, panicked >>

\* Spawned close, second half: the child has exited; release the handles.
pipe_close_wait ==
    /\ phase = "waiting" /\ ~panicked /\ peer = "exited"
    /\ sess' = "Closed" /\ released' = released + 1
    /\ phase' = "ready" /\ prog' = Tail(prog)
    /\ UNCHANGED << cfgVars, mark, variant, peer, wire, rd, sent, produced, returned,
                    consumed, quits, got, holder, selected, op, res, readin, out,
                    closes, pending, path, finfo, panicked >>

\* ------------------------------------------------------------- R2's steps

\* The assignment with the response trimmed of its newlines first.
unwrap_readin_trimmed ==
    /\ Running /\ Head(prog).k = "unwrap_readin"
    /\ IF res.ok
       THEN readin' = StripSpace(res.val) /\ prog' = Tail(prog) /\ UNCHANGED panicked
       ELSE panicked' = TRUE /\ UNCHANGED << readin, prog >>
    /\ UNCHANGED << cfgVars, mark, chanVars, histVars, holder, selected, phase, op, res, out,
                    closes, pending, path, finfo >>

\* The assignment written as an append: self.readin.push_str(..)
unwrap_readin_appended ==
    /\ Running /\ Head(prog).k = "unwrap_readin"
    /\ IF res.ok
       THEN readin' = readin \o res.val /\ prog' = Tail(prog) /\ UNCHANGED panicked
       ELSE panicked' = TRUE /\ UNCHANGED << readin, prog >>
    /\ UNCHANGED << cfgVars, mark, chanVars, histVars, holder, selected, phase, op, res, out,
                    closes, pending, path, finfo >>

\* self.readin = <cmd's Result>.unwrap()
unwrap_readin ==
    /\ Running /\ Head(prog).k = "unwrap_readin"
    /\ IF res.ok
       THEN readin' = res.val /\ prog' = Tail(prog) /\ UNCHANGED panicked
       ELSE panicked' = TRUE /\ UNCHANGED << readin, prog >>
    /\ UNCHANGED << cfgVars, mark, chanVars, histVars, holder, selected, phase, op, res, out,
                    closes, pending, path, finfo >>

\* let res = self.readin.clone(): the value recv returns
clone_readin ==
    /\ Running /\ Head(prog).k = "clone_readin"
    /\ out' = Ok(readin)
    /\ got' = IF pending > 0 THEN Append(got, [n |-> pending, r |-> readin]) ELSE got
    /\ prog' = Tail(prog)
    /\ UNCHANGED << cfgVars, mark, chanVars, sent, produced, returned, consumed, quits,
                    released, holder, selected, phase, op, res, readin, closes, pending,
                    path, finfo, panicked >>

flush_readin ==
    /\ Running /\ Head(prog).k = "flush"
    /\ readin' = <<>>
    /\ pending' = 0
    /\ prog' = Tail(prog)
    /\ UNCHANGED << cfgVars, mark, chanVars, sent, produced, returned, consumed, quits,
                    released, got, holder, selected, phase, op, res, out, closes, path,
                    finfo, panicked >>

\* recv_json after its recv: newlines removed, "{}" for the empty text, then
\* serde_json::from_str(&res).unwrap()
json_unwrap ==
    /\ Running /\ Head(prog).k = "json_unwrap"
    /\ LET stripped == RemoveLF(out.val)
           text == IF stripped = <<>> THEN EmptyDocument ELSE stripped
           v == from_str_value(text)
       IN IF v.ok
          THEN out' = v /\ prog' = Tail(prog) /\ UNCHANGED panicked
          ELSE panicked' = TRUE /\ UNCHANGED << out, prog >>
    /\ UNCHANGED << cfgVars, mark, chanVars, histVars, holder, selected, phase, op, res,
                    readin, closes, pending, path, finfo >>

\* fn_list's loop over fns: per function, f.offset.unwrap(), locals_of, f.locals = ..
RECURSIVE ForEachFn(_)
ForEachFn(items) ==
    IF items = <<>> THEN <<>>
    ELSE << Step("offset_unwrap", Head(items)), Step("set_locals", "") >>
         \o ForEachFn(Tail(items))

\* From<&FunctionInfo_> for FunctionInfo: locals: None
NewFinfo(items) ==
    [i \in 1..Len(items) |-> [offset |-> items[i], set |-> FALSE, locals |-> <<>>]]

\* serde_json::from_str on the text recv returned.
from_str ==
    /\ Running /\ Head(prog).k = "from_str"
    /\ LET r == from_str_vec(out.val) IN
       IF Head(prog).c = "fn_list"
       THEN IF r.ok
            THEN /\ finfo' = NewFinfo(r.items)
                 /\ out' = Unit
                 /\ prog' = ForEachFn(r.items) \o << Step("return_finfo", "") >> \o Tail(prog)
            ELSE /\ finfo' = <<>>
                 /\ out' = Err("StructuredError")
                 /\ prog' = Tail(prog)
       ELSE /\ out' = LET t == IF Head(prog).c \in StructOps
                                THEN from_str_struct(out.val) ELSE r
                      IN IF t.ok THEN Ok(t.items) ELSE Err("StructuredError")
            /\ prog' = Tail(prog)
            /\ UNCHANGED finfo
    /\ UNCHANGED << cfgVars, mark, chanVars, histVars, holder, selected, phase, op, res,
                    readin, closes, pending, path, panicked >>

\* let res = self.locals_of(f.offset.unwrap())
offset_unwrap ==
    /\ Running /\ Head(prog).k = "offset_unwrap"
    /\ IF Head(prog).c = "None"
       THEN panicked' = TRUE /\ UNCHANGED prog
       ELSE prog' = locals_of(Head(prog).c) \o Tail(prog) /\ UNCHANGED panicked
    /\ UNCHANGED << cfgVars, mark, chanVars, histVars, holder, selected, phase, op, res,
                    readin, out, closes, pending, path, finfo >>

\* The first function whose locals the loop has not set yet.
NextFn == CHOOSE i \in 1..Len(finfo) : ~finfo[i].set /\ \A j \in 1..(i - 1) : finfo[j].set

\* f.locals = res.ok()  or  Some(Vec::new())
set_locals ==
    /\ Running /\ Head(prog).k = "set_locals"
    /\ finfo' = [finfo EXCEPT ![NextFn] =
                    [offset |-> @.offset, set |-> TRUE,
                     locals |-> IF out.ok THEN out.val ELSE <<>>]]
    /\ prog' = Tail(prog)
    /\ UNCHANGED << cfgVars, mark, chanVars, histVars, holder, selected, phase, op, res,
                    readin, out, closes, pending, path, panicked >>

return_finfo ==
    /\ Running /\ Head(prog).k = "return_finfo"
    /\ out' = [ok |-> TRUE, val |-> <<>>, err |-> "finfo"]
    /\ prog' = Tail(prog)
    /\ UNCHANGED << cfgVars, mark, chanVars, histVars, holder, selected, phase, op, res,
                    readin, closes, pending, path, finfo, panicked >>

\* --------------------------------------------------------------- the engine

\* The engine takes a request and writes one response frame.
PeerRespond(p) ==
    /\ peer = "running" /\ ~panicked /\ wire # <<>> /\ Head(wire) # encode("q!")
    /\ wire' = Tail(wire)
    /\ rd' = rd \o p \o << NUL >>
    /\ produced' = Append(produced, p)
    /\ UNCHANGED << cfgVars, mark, sess, variant, peer, sent, returned, consumed, quits,
                    released, got, holder, selected, prog, phase, op, res, readin, out,
                    closes, pending, path, finfo, panicked >>

\* The engine writes part of a response and dies before the terminator.
PeerPartial(p) ==
    /\ peer = "running" /\ ~panicked /\ wire # <<>> /\ Head(wire) # encode("q!")
    /\ wire' = Tail(wire)
    /\ rd' = rd \o p
    /\ peer' = "exited"
    /\ UNCHANGED << cfgVars, mark, sess, variant, sent, produced, returned, consumed, quits,
                    released, got, holder, selected, prog, phase, op, res, readin, out,
                    closes, pending, path, finfo, panicked >>

\* The engine takes a quit request: it exits, with or without an empty frame.
PeerQuit(ack) ==
    /\ peer = "running" /\ ~panicked /\ wire # <<>> /\ Head(wire) = encode("q!")
    /\ wire' = Tail(wire)
    /\ IF ack
       THEN rd' = rd \o << NUL >> /\ produced' = Append(produced, <<>>)
       ELSE UNCHANGED << rd, produced >>
    /\ peer' = "exited"
    /\ UNCHANGED << cfgVars, mark, sess, variant, sent, returned, consumed, quits,
                    released, got, holder, selected, prog, phase, op, res, readin, out,
                    closes, pending, path, finfo, panicked >>

\* The engine dies, or the pipe breaks, at any time.
PeerExit ==
    /\ peer = "running" /\ ~panicked
    /\ peer' = "exited"
    /\ UNCHANGED << cfgVars, mark, sess, variant, wire, rd, sent, produced, returned, consumed,
                    quits, released, got, holder, selected, prog, phase, op, res, readin,
                    out, closes, pending, path, finfo, panicked >>

\* -------------------------------------------------------------------- Next

\* The engine's moves.
Engine ==
    \/ \E p \in Payloads : PeerRespond(p)
    \/ \E p \in Partials : PeerPartial(p)
    \/ \E ack \in BOOLEAN : PeerQuit(ack)
    \/ PeerExit

\* The steps inside send, recv and flush.
CoreSteps ==
    \/ cmd_write
    \/ cmd_read
    \/ unwrap_readin
    \/ clone_readin
    \/ flush_readin

\* A caller of R2's untyped surface: new / default, send, recv, flush, close.
Next ==
    \/ \E p \in Paths : R2_new(p)
    \/ R2_default
    \/ \E c \in UserCmds : R2_send(c)
    \/ R2_recv
    \/ R2_flush
    \/ R2_close
    \/ CoreSteps
    \/ Engine

Spec == Init /\ [][Next]_vars

\* A caller of R2's typed operations, which write several requests per call.
NextTyped ==
    \/ \E p \in Paths : R2_new(p)
    \/ R2_recv
    \/ R2_analyze
    \/ R2_init
    \/ R2_fn_list
    \/ \E l \in {"1"} : R2_locals_of(l)
    \/ CoreSteps
    \/ from_str
    \/ offset_unwrap
    \/ set_locals
    \/ return_finfo
    \/ \E p \in Payloads : PeerRespond(p)
    \/ \E p \in Partials : PeerPartial(p)
    \/ PeerExit

SpecTyped == Init /\ [][NextTyped]_vars

\* A caller that opens the R2Pipe itself, uses it, and may wrap it in an R2.
NextPipe ==
    \/ \E p \in Paths : OpenPipe(p)
    \/ \E c \in UserCmds : R2Pipe_cmd(c)
    \/ R2Pipe_close
    \/ R2_from
    \/ \E c \in UserCmds : R2_send(c)
    \/ R2_recv
    \/ R2_close
    \/ CoreSteps
    \/ return_res
    \/ pipe_close
    \/ pipe_close_wait
    \/ Engine

SpecPipe == Init /\ [][NextPipe]_vars

\* Responses of a caller that reads structured documents.
JsonPayloads == { <<>>, << LF >>, << " " >>, << "{", "}", LF >>, << "x" >> }

\* A caller that decodes responses as documents: cmdj on the R2Pipe, or send
\* and recv_json on R2.
NextJson ==
    \/ \E p \in Paths : OpenPipe(p)
    \/ \E p \in Paths : R2_new(p)
    \/ \E c \in UserCmds : R2Pipe_cmdj(c)
    \/ \E c \in UserCmds : R2_send(c)
    \/ R2_recv_json
    \/ CoreSteps
    \/ cmdj_parse
    \/ json_unwrap
    \/ \E p \in JsonPayloads : PeerRespond(p)
    \/ PeerExit

SpecJson == Init /\ [][NextJson]_vars

\* Responses of the engine in the runs checked for progress.
LivePayloads == { <<>>, << "x", NUL, "y" >> }

\* The engine's moves there: answer, die half-way, obey a quit, die.
EngineLive ==
    \/ \E p \in LivePayloads : PeerRespond(p)
    \/ \E p \in Partials : PeerPartial(p)
    \/ \E ack \in BOOLEAN : PeerQuit(ack)
    \/ PeerExit

\* A caller of cmd, directly on the R2Pipe or through R2::send and R2::close.
NextLive ==
    \/ \E p \in Paths : OpenPipe(p)
    \/ \E c \in UserCmds : R2Pipe_cmd(c)
    \/ R2_from
    \/ \E c \in UserCmds : R2_send(c)
    \/ R2_close
    \/ cmd_write
    \/ cmd_read
    \/ return_res
    \/ unwrap_readin
    \/ EngineLive

\* A fair peer: while the engine runs it eventually answers or exits; and a
\* read that can complete does complete (the client is blocked in it).
SpecLive ==
    Init /\ [][NextLive]_vars /\ WF_vars(EngineLive) /\ WF_vars(cmd_read)

\* Responses in the runs that exercise every operation of a Session.
SessionPayloads == { <<>>, << "x" >> }

\* A caller that uses every operation of the Session, on the R2Pipe and on
\* the R2 made from it or built by R2::new.
NextSession ==
    \/ \E p \in Paths : OpenPipe(p)
    \/ \E p \in Paths : R2_new(p)
    \/ \E c \in UserCmds : R2Pipe_cmd(c)
    \/ \E c \in UserCmds : R2Pipe_cmdj(c)
    \/ R2Pipe_close
    \/ R2_from
    \/ \E c \in UserCmds : R2_send(c)
    \/ R2_recv
    \/ R2_close
    \/ CoreSteps
    \/ return_res
    \/ cmdj_parse
    \/ pipe_close
    \/ pipe_close_wait
    \/ \E p \in SessionPayloads : PeerRespond(p)
    \/ \E ack \in BOOLEAN : PeerQuit(ack)
    \/ PeerExit

SpecSession == Init /\ [][NextSession]_vars

\* Responses to the typed queries: an object, which no Vec parses from, and
\* an array, which no struct parses from.
ConvPayloads == { << "{", "}" >>, << "[", "{", "o", "}", "]" >> }

\* A caller of every typed convenience operation, and of recv after them.
NextConv ==
    \/ \E p \in Paths : R2_new(p)
    \/ R2_recv
    \/ R2_init
    \/ R2_analyze
    \/ \E f \in {"main"} : R2_function(f)
    \/ \E a \in { << "None", "None" >>, << "1", "main" >> } : R2_insts(a[1], a[2])
    \/ R2_reg_info
    \/ R2_flag_info
    \/ R2_bin_info
    \/ R2_fn_list
    \/ R2_sections
    \/ \E data_only \in BOOLEAN : R2_strings(data_only)
    \/ \E l \in {"1"} : R2_locals_of(l)
    \/ CoreSteps
    \/ from_str
    \/ offset_unwrap
    \/ set_locals
    \/ return_finfo
    \/ \E p \in ConvPayloads : PeerRespond(p)
    \/ PeerExit

SpecConv == Init /\ [][NextConv]_vars

\* Responses to aflj and afvbj: lists of no, one and two functions, a list
\* whose entry has no offset, and a malformed text.
FnPayloads ==
    { << "[", "]" >>,
      << "[", "{", "o", "}", "]" >>,
      << "[", "{", "o", "}", ",", "{", "p", "}", "]" >>,
      << "[", "{", "}", "]" >>,
      << "x" >> }

\* A caller of fn_list.
NextFnList ==
    \/ \E p \in Paths : R2_new(p)
    \/ R2_fn_list
    \/ CoreSteps
    \/ from_str
    \/ offset_unwrap
    \/ set_locals
    \/ return_finfo
    \/ \E p \in FnPayloads : PeerRespond(p)
    \/ PeerExit

SpecFnList == Init /\ [][NextFnList]_vars

\* ================================================================== claims

\* The engine kept to the wire protocol for the first n requests: no payload
\* of theirs holds a NUL.
Framed(n) == \A j \in 1..n : j <= Len(produced) => ~HasNul(produced[j])

\* C1 as stated, for any engine: the i-th value a caller takes (send then
\* recv) is the response the engine produced for the i-th request.
C1_OrderingAnyEngine ==
    \A k \in 1..Len(got) :
        /\ got[k].n <= Len(produced)
        /\ got[k].r = produced[got[k].n]

\* C1 (amended): sequential ordering, for an engine that has written no NUL
\* inside a payload: the i-th value a caller takes (send then recv) is the
\* response the engine produced for the request that call wrote, and the
\* values come back in the order the requests were issued.
C1_SequentialOrdering ==
    \A k \in 1..Len(got) :
        Framed(got[k].n) =>
            /\ got[k].n <= Len(produced)
            /\ got[k].r = produced[got[k].n]
            /\ \A j \in 1..(k - 1) : got[j].n < got[k].n

\* send(a); recv(); send(b); recv() returned two different responses.
C1_Witness ==
    /\ Len(got) = 2 /\ got[1].n = 1 /\ got[2].n = 2
    /\ sent = << "a", "b" >>
    /\ got[1].r = << "x", LF >> /\ got[2].r = << "[", "{", "o", "}", "]" >>

\* C2 as stated, for any engine: at most one exchange is in flight: no
\* request is written while an earlier request is unanswered or the
\* terminator of its response unconsumed, also inside init and fn_list.
C2_OneExchangeAnyEngine == Len(sent) <= consumed + 1 /\ Len(wire) <= 1

\* C2 (amended): the client writes no request before it has consumed one
\* terminator for every earlier request, also inside init and fn_list; and
\* while the engine has written no NUL inside a payload, at most one request
\* is unanswered and no response byte is left unread when a request is
\* written.
C2_HalfDuplex ==
    /\ Len(sent) <= consumed + 1
    /\ Framed(Len(sent)) =>
           /\ Len(wire) <= 1
           /\ (wire # <<>> => rd = <<>>)

\* fn_list has written its second request, the first exchange being over.
C2_Witness ==
    /\ op = "fn_list" /\ phase = "reading" /\ Len(sent) = 2 /\ consumed = 1
    /\ sent[2] = "afvbj @ 1"

\* C3: for a payload p without NUL that the engine writes before the
\* terminator, send stores exactly p, and no value handed to the caller ever
\* holds the terminator.
C3_ExactPayload ==
    /\ ~HasNul(readin)
    /\ \A k \in 1..Len(got) : ~HasNul(got[k].r)
    /\ (op = "send" /\ prog = <<>> /\ ~panicked /\ Framed(Len(sent))) =>
           /\ Len(produced) = Len(sent)
           /\ readin = produced[Len(sent)]

\* send has stored a payload that ends in a newline, as written.
C3_Witness ==
    /\ op = "send" /\ prog = <<>> /\ ~panicked
    /\ produced = << << "x", LF >> >> /\ readin = << "x", LF >>

\* C4: close is idempotent: a second close is a no-op without error or
\* crash, writes nothing and releases nothing a second time.
C4_CloseIdempotent ==
    (closes >= 2 /\ op = "close") =>
        /\ ~panicked
        /\ Len(quits) <= 1
        /\ released <= 1

\* C5: Closed is terminal: after close, a later send fails with
\* ClosedChannelError, returned as a value.
C5_ClosedIsTerminal ==
    (closes >= 1 /\ op = "send") =>
        /\ ~panicked
        /\ prog = <<>> => res = Err("ClosedChannelError")

\* C6: close on an Inherited channel never writes a quit request to the
\* parent engine.
C6_InheritedCloseKeepsParent ==
    \A i \in 1..Len(quits) : quits[i][1] # "Inherited"

\* C7: channel selection is a three-way decision on (explicit path, ambient
\* configuration): valid inherited-session keys and no path give Inherited;
\* a path and no valid keys give Spawned; neither gives ConfigurationError,
\* returned as an error, with no channel and no process created.
C7_ThreeWaySelection ==
    selected # "None" =>
        /\ (env = "valid" /\ path = "None") =>
               /\ selected = "Inherited" /\ variant = "Inherited"
               /\ sess # "Uninitialized" /\ holder = "r2"
        /\ (env # "valid" /\ path = "Some") =>
               /\ selected = "Spawned"
               /\ engineOK => (variant = "Spawned" /\ sess # "Uninitialized")
        /\ (env # "valid" /\ path = "None" /\ op = "new") =>
               /\ out = Err("ConfigurationError")
               /\ ~panicked
               /\ holder = "none" /\ sess = "Uninitialized"
               /\ variant = "None" /\ peer = "none"

\* R2::new(None) outside a session has returned its error.
C7_Witness ==
    /\ op = "new" /\ path = "None" /\ env = "absent"
    /\ out = Err("ConfigurationError") /\ sess = "Uninitialized"

\* C8: selector precedence: with both a path and valid inherited-session
\* keys, Inherited is selected and no engine is spawned; keys that are
\* present but do not parse count as absent: Spawned with a path,
\* ConfigurationError without.
C8_SelectorPrecedence ==
    selected # "None" =>
        /\ (env = "valid" /\ path = "Some") =>
               /\ selected = "Inherited" /\ variant = "Inherited" /\ sess # "Uninitialized"
        /\ (env = "invalid" /\ path = "Some") => selected = "Spawned"
        /\ (env = "invalid" /\ path = "None" /\ op = "new") =>
               /\ selected = "ConfigurationError" /\ out = Err("ConfigurationError")
               /\ variant = "None" /\ peer = "none"

\* R2::new(Some(path)) inside a session has attached to the inherited pipe.
C8_Witness ==
    /\ op = "new" /\ path = "Some" /\ env = "valid"
    /\ variant = "Inherited" /\ sess = "Connected" /\ holder = "r2"

\* C9: opening a session never crashes: when the engine cannot be started,
\* the constructor returns SpawnError as a value and builds no Session.
C9_OpenNeverCrashes ==
    (selected = "Spawned" /\ ~engineOK /\ sess = "Uninitialized") =>
        /\ ~panicked
        /\ out = Err("SpawnError")
        /\ holder = "none"

\* C10: when the stream ends before a terminator, cmd's TransportError
\* reaches the caller as a value: no partial response, no crash.
C10_EofIsReturned ==
    (Len(returned) > 0 /\ returned[Len(returned)] = Err("TransportError")) =>
        /\ ~panicked
        /\ ~res.ok


\* The text of an ok response holds nothing but whitespace.
Blank(r) == r.ok /\ StripSpace(r.val) = <<>>

\* C11: decoding an empty or whitespace-only response as a document never
\* fails and yields the empty document, the same as the response "{}": for
\* cmdj once its cmd returned such a response, and for recv_json once its
\* recv returned such a text.
C11_BlankIsEmptyDocument ==
    /\ (op = "cmdj" /\ Len(prog) <= 1 /\ phase = "ready" /\ Blank(res))
           => (prog = <<>> => out = Json(EmptyDocument))
    /\ (op = "recv_json" /\ Len(prog) = 1 /\ Blank(out)) => ~panicked
    /\ (op = "recv_json" /\ prog = <<>> /\ (got = <<>> \/ Blank(Ok(got[Len(got)].r))))
           => out = Json(EmptyDocument)

\* C12: every failure reaches the caller as a typed result and none is turned
\* into a crash: send, recv_json and cmdj never panic, a failure of cmd is
\* what cmdj returns, and a non-empty malformed response makes cmdj return
\* StructuredError.
C12_FailuresAreValues ==
    /\ op \in {"send", "recv_json", "cmdj"} => ~panicked
    /\ (op = "cmdj" /\ prog = <<>> /\ ~res.ok) => out = res
    /\ (op = "cmdj" /\ prog = <<>> /\ res.ok /\ ~Blank(res) /\ ~from_str_value(res.val).ok)
           => out = Err("StructuredError")

\* C13: close on a Spawned Channel completes teardown: it never crashes, and
\* when it has returned the quit request was attempted, the child has
\* exited, the pipe handles are released once, the Session is Closed and no
\* error is reported.
C13_SpawnedCloseTearsDown ==
    (op \in {"close", "pipe_close"} /\ variant = "Spawned") =>
        /\ ~panicked
        /\ (prog = <<>> /\ phase = "ready") =>
              /\ sess = "Closed"
              /\ peer = "exited"
              /\ released = 1
              /\ out.ok

\* The byte stream made of the frames of payloads ps, each ended by a NUL.
RECURSIVE CatFrames(_)
CatFrames(ps) ==
    IF ps = <<>> THEN <<>> ELSE Head(ps) \o << NUL >> \o CatFrames(Tail(ps))

ReturnedPayloads == [i \in 1..Len(returned) |-> returned[i].val]

\* C14: first terminator wins. No decoded response holds a NUL, and while
\* the engine runs and every response decoded, the frames decoded so far
\* followed by the bytes still unread are exactly the stream the engine
\* wrote: each decode took the bytes up to the first NUL and no byte more.
C14_FirstTerminatorWins ==
    /\ \A i \in 1..Len(returned) : ~HasNul(returned[i].val)
    /\ (peer = "running" /\ \A i \in 1..Len(returned) : returned[i].ok)
          => CatFrames(ReturnedPayloads) \o rd = CatFrames(produced)

\* A payload with an embedded NUL was decoded: send stored the bytes before
\* it, and the bytes after it are still in the stream.
C14_Witness ==
    /\ op = "send" /\ prog = <<>> /\ ~panicked
    /\ produced = << << "x", NUL, "y" >> >>
    /\ returned = << Ok(<< "x" >>) >>
    /\ readin = << "x" >>
    /\ rd = << "y", NUL >>

\* C15: one cmd call (directly, or inside send or R2::close) writes at most
\* one request frame, each frame is the command followed by one "\n", it is
\* written before the call starts to read, no more response frames are
\* consumed than requests written, and a call that returns Ok has written
\* exactly one frame and consumed exactly one; a failed call has not written
\* its request twice.
C15_OneFramePerCmd ==
    /\ \A i \in 1..Len(wire) :
          wire[i] = << sent[Len(sent) - Len(wire) + i], LF >>
    /\ op \in {"cmd", "send", "close"} =>
          /\ Len(sent) - mark.sent <= 1
          /\ consumed - mark.consumed <= Len(sent) - mark.sent
          /\ phase = "reading" => Len(sent) = mark.sent + 1
          /\ (prog = <<>> /\ out.ok) =>
                /\ Len(sent) = mark.sent + 1
                /\ consumed = mark.consumed + 1

\* A second cmd call failed at end-of-file after the first succeeded: the
\* failed call wrote its request once and consumed nothing.
C15_Witness ==
    /\ op = "cmd" /\ prog = <<>> /\ out = Err("TransportError")
    /\ mark = [sent |-> 1, consumed |-> 1]
    /\ Len(sent) = 2 /\ consumed = 1

\* cmd is blocked in its read.
Blocked == phase = "reading"

\* C16: under a fair peer every cmd call that is blocked in its read
\* eventually returns; and the read cannot complete while the stream holds no
\* terminator and the engine still runs.
C16_CmdTerminates ==
    /\ [](Blocked /\ ~HasNul(rd) /\ peer = "running" => ~ENABLED cmd_read)
    /\ (Blocked ~> ~Blocked)

\* cmd returned TransportError because the engine exited without writing a
\* terminator.
C16_Witness ==
    /\ op = "cmd" /\ prog = <<>> /\ out = Err("TransportError")
    /\ returned = << Err("TransportError") >>
    /\ sent = << "a" >> /\ produced = <<>>

\* C17: a Session that exists holds one Channel, Spawned or Inherited, and
\* it is the variant selected at construction, whatever operations (cmd,
\* cmdj, from, send, recv, close) have run since; before construction there
\* is none.
C17_OneChannelFixedVariant ==
    /\ holder = "none" => variant = "None"
    /\ holder # "none" =>
          /\ variant \in {"Spawned", "Inherited"}
          /\ variant = selected

\* An R2 on an Inherited Channel has been used by send and then by R2::close.
C17_Witness ==
    /\ holder = "r2" /\ op = "close" /\ prog = <<>> /\ ~panicked
    /\ path = "None" /\ variant = "Inherited"
    /\ Len(sent) = 2 /\ sess = "Connected"

\* C18: the scratch buffer holds at most the response of the most recent
\* send. Between operations it is empty or that response; a send leaves
\* exactly its own response in it; recv returns the buffer, which is the
\* last send's response if one was written since the last recv or flush and
\* the empty string otherwise, and leaves the buffer empty.
C18_ScratchHoldsLastResponse ==
    /\ pending = 0 => readin = <<>>
    /\ (holder = "r2" /\ prog = <<>> /\ ~panicked) =>
          (readin = <<>> \/ (res.ok /\ readin = res.val))
    /\ (op = "send" /\ prog = <<>>) => (res.ok /\ readin = res.val)
    /\ (op = "recv" /\ Len(prog) = 1) =>
          /\ out = Ok(readin)
          /\ pending = 0 => out.val = <<>>
          /\ pending > 0 => (res.ok /\ out.val = res.val)
    /\ (op = "recv" /\ prog = <<>>) => (readin = <<>> /\ pending = 0)

\* send(a); send(b); recv(): the one value handed out is b's response, not
\* a's and not both.
C18_Witness ==
    /\ op = "recv" /\ prog = <<>>
    /\ sent = << "a", "b" >>
    /\ produced = << << "x", LF >>, << "[", "{", "o", "}", "]" >> >>
    /\ got = << [n |-> 2, r |-> << "[", "{", "o", "}", "]" >>] >>
    /\ out = Ok(<< "[", "{", "o", "}", "]" >>)
    /\ readin = <<>>

TypedOps ==
    {"init", "analyze", "function", "insts", "reg_info", "flag_info", "bin_info",
     "fn_list", "sections", "strings", "locals_of"}

\* C19: when a typed operation has returned, with Ok or with a parse Err,
\* the scratch buffer is empty and holds no response of it; a recv called
\* after typed operations only returns the empty string.
C19_TypedOpsConsumeResponses ==
    /\ (op \in TypedOps /\ prog = <<>> /\ ~panicked) => (readin = <<>> /\ pending = 0)
    /\ (op = "recv" /\ Len(prog) <= 1) => out = Ok(<<>>)

\* bin_info returned a parse Err (its response was an array), sections was
\* called after it and returned Ok: the buffer is empty.
C19_Witness ==
    /\ op = "sections" /\ prog = <<>> /\ ~panicked
    /\ sent = << "ij", "Sj" >>
    /\ returned = << Ok(<< "[", "{", "o", "}", "]" >>), Ok(<< "[", "{", "o", "}", "]" >>) >>
    /\ out = Ok(<< "1" >>)
    /\ readin = <<>>

\* The requests written since the current operation was called.
SentSince == SubSeq(sent, mark.sent + 1, Len(sent))

\* The responses decoded since the current operation was called.
ReturnedSince == SubSeq(returned, mark.consumed + 1, Len(returned))

\* The queries fn_list is to write for the list fs: aflj, then one locals
\* query per function, in list order.
FnListQueries(fs) ==
    << "aflj" >> \o
    [i \in 1..Len(fs) |->
        IF fs[i].offset \in DOMAIN AfvbjAt THEN AfvbjAt[fs[i].offset] ELSE "afvbj @ ?"]

\* What fn_list stores for a locals response: the decoded list, or the empty one.
LocalsFrom(r) == IF from_str_vec(r.val).ok THEN from_str_vec(r.val).items ELSE <<>>

\* C20: fn_list does not stop while every exchange succeeds; when it has
\* returned it has performed exactly 1 + n exchanges for a list of n entries,
\* aflj first and then the locals query of each function in list order, and
\* every function has its locals set to the decoded response of its query
\* or to the empty list; when the list itself did not decode, aflj is the
\* only exchange.
C20_FnListExchanges ==
    op = "fn_list" =>
        /\ res.ok => ~panicked
        /\ prog = <<>> =>
              /\ SentSince = FnListQueries(finfo)
              /\ Len(ReturnedSince) = 1 + Len(finfo)
              /\ ~out.ok => SentSince = << "aflj" >>
              /\ out.ok =>
                    \A i \in 1..Len(finfo) :
                        /\ finfo[i].set
                        /\ finfo[i].locals = LocalsFrom(ReturnedSince[1 + i])

================================================================
